---- MODULE Spec2Model ----
(***************************************************************************)
(* Auto-Hide Backfaces (src/__init__.py): a modal operator that, on every  *)
(* timer tick in mesh edit mode, hides the faces whose world normal points *)
(* along the view direction, and a per-object cache of hidden face indices *)
(* that cancel() uses to unhide them again.                                *)
(*                                                                         *)
(* Host behaviour the code relies on (bpy / bmesh):                        *)
(*  - bmesh.from_edit_mesh(mesh) raises ValueError when the mesh is not in *)
(*    edit mode;                                                           *)
(*  - context.editable_objects lists every editable object of the scene,   *)
(*    in scene order, whatever its type or mode;                           *)
(*  - an exception leaving modal() ends the operator; cancel() is not run; *)
(*  - returning {'CANCELLED'} from modal() ends the operator; cancel() is  *)
(*    run only where the code calls it;                                    *)
(*  - assigning a property runs its update callback (toggle_modal).        *)
(***************************************************************************)
EXTENDS Integers, Sequences, FiniteSets, TLC

VARIABLES
  objs,          \* names of the objects in context.scene.objects
  matrix_world,  \* matrix_world.to_3x3() of each mesh object
  faces,         \* bm.faces of each mesh object: normal, hide (and who hid it)
  editObjs,      \* mesh objects whose mesh is in edit mode
  screen,        \* context.screen.areas
  enabled,       \* scene.auto_hide_backfaces_enabled
  cache,         \* _hidden_faces_cache: a dict, kept in insertion order
  modals,        \* running instances of VIEW3D_OT_auto_hide_backface_modal
  timers,        \* timers registered with the window manager by execute()
  last           \* what the last step was: operation, return value, commits

vars == <<objs, matrix_world, faces, editObjs, screen, enabled, cache,
          modals, timers, last>>

----------------------------------------------------------------------------
\* Bounds of the model.

\* Most faces mesh A has in the scene of Spec.
MaxFaces == 2
\* Most faces mesh A has in the calls of SpecU.
MaxFacesU == 4
\* Most timers registered at once (execute() is not modelled beyond it).
MaxTimers == 2

----------------------------------------------------------------------------
\* The scene.

MeshObjs == {"A", "B"}
OtherObjs == {"L"}
AllObjs == MeshObjs \cup OtherObjs
SceneOrder == <<"A", "B", "L">>

ObjType(o) == IF o \in MeshObjs THEN "MESH" ELSE "LIGHT"

None == "None"

\* context.mode: mesh edit mode iff some mesh is being edited.
Mode(ed) == IF ed # {} THEN "EDIT_MESH" ELSE "OBJECT"

----------------------------------------------------------------------------
\* Vectors and 3x3 matrices (rows), as mathutils computes with them.

Dot(a, b) == a[1] * b[1] + a[2] * b[2] + a[3] * b[3]

MatVec(m, v) == <<Dot(m[1], v), Dot(m[2], v), Dot(m[3], v)>>

MatId == <<<<1, 0, 0>>, <<0, 1, 0>>, <<0, 0, 1>>>>
RotY90 == <<<<0, 0, 1>>, <<0, 1, 0>>, <<-1, 0, 0>>>>
RotYm90 == <<<<0, 0, -1>>, <<0, 1, 0>>, <<1, 0, 0>>>>
RotX180 == <<<<1, 0, 0>>, <<0, -1, 0>>, <<0, 0, -1>>>>
MirrorZ == <<<<1, 0, 0>>, <<0, 1, 0>>, <<0, 0, -1>>>>

\* Face normals of the meshes (local space), by face index + 1.
NormalTable == <<<<0, 0, 1>>, <<0, 0, -1>>, <<1, 0, 0>>, <<-1, 0, 0>>>>

NormalAt(i) == NormalTable[((i - 1) % Len(NormalTable)) + 1]

----------------------------------------------------------------------------
\* get_view_direction

Region(t, d) == [type |-> t, data |-> d]
Area(t, rs) == [type |-> t, regions |-> rs]

RECURSIVE RegionView(_, _)
RegionView(regions, j) ==
  IF j > Len(regions) THEN None
  ELSE IF regions[j].type = "WINDOW" /\ regions[j].data # None
       THEN MatVec(regions[j].data, <<0, 0, -1>>)
       ELSE RegionView(regions, j + 1)

RECURSIVE AreaView(_, _)
AreaView(areas, i) ==
  IF i > Len(areas) THEN None
  ELSE IF areas[i].type = "VIEW_3D" /\ RegionView(areas[i].regions, 1) # None
       THEN RegionView(areas[i].regions, 1)
       ELSE AreaView(areas, i + 1)

\* Faulty variant: a default direction when no view is found.
get_view_direction_default(areas) ==
  IF AreaView(areas, 1) = None THEN <<0, 0, -1>> ELSE AreaView(areas, 1)

get_view_direction(areas) == AreaView(areas, 1)

\* Screen layouts the user can switch between.
ScreenNoView == <<Area("PROPERTIES", <<Region("WINDOW", MatId)>>)>>
ScreenFront == <<Area("VIEW_3D", <<Region("HEADER", None), Region("WINDOW", MatId)>>)>>
ScreenSide ==
  <<Area("VIEW_3D", <<Region("WINDOW", None)>>),
    Area("VIEW_3D", <<Region("UI", RotX180), Region("WINDOW", RotYm90)>>)>>
ScreenBack == <<Area("OUTLINER", <<>>), Area("VIEW_3D", <<Region("WINDOW", RotX180)>>)>>

\* A 3D view whose window region has no view data.
ScreenNoData ==
  <<Area("VIEW_3D", <<Region("WINDOW", None), Region("HEADER", MatId)>>)>>

\* A view turned 45 degrees about Y. The rotation is scaled by sqrt 2 to stay
\* in the integers, which leaves the sign of every dot product as it is.
RotY45 == <<<<1, 0, -1>>, <<0, 1, 0>>, <<1, 0, 1>>>>
ScreenDiag ==
  <<Area("OUTLINER", <<>>),
    Area("VIEW_3D", <<Region("HEADER", None), Region("WINDOW", RotY45)>>),
    Area("PROPERTIES", <<>>)>>

\* The layouts of Spec, and those of SpecU.
SceneScreens == {ScreenNoView, ScreenFront, ScreenSide}
Screens == SceneScreens \cup {ScreenBack, ScreenNoData}

----------------------------------------------------------------------------
\* _hidden_faces_cache: a Python dict, a sequence of (key, value) in insertion
\* order.

CacheKeys(c) == {c[k].name : k \in 1..Len(c)}

CachePos(c, n) == CHOOSE k \in 1..Len(c) : c[k].name = n

\* _hidden_faces_cache.get(name, set())
CacheGet(c, n) == IF n \in CacheKeys(c) THEN c[CachePos(c, n)].indices ELSE {}

\* _hidden_faces_cache[name] = s: a present key keeps its place.
CachePut(c, n, s) ==
  IF n \in CacheKeys(c)
  THEN [c EXCEPT ![CachePos(c, n)] = [name |-> n, indices |-> s]]
  ELSE Append(c, [name |-> n, indices |-> s])

----------------------------------------------------------------------------
\* update_backfaces

\* A face: its normal, its hide flag, and (for the claims only) who set the
\* flag last: "none" (shown), "tool" (update_backfaces) or "user".
Face(n, h, b) == [normal |-> n, hide |-> h, by |-> b]

\* Faulty variant: the test >= 0: a face edge-on to the view is hidden too.
IsBackfaceNonStrict(face_world_normal, view_dir) ==
  Dot(face_world_normal, view_dir) >= 0

\* is_backface = face_world_normal.dot(view_dir) > 0
IsBackface(face_world_normal, view_dir) == Dot(face_world_normal, view_dir) > 0

\* Faulty variant: a backface that is already hidden is not recorded.
FaceStepNoKeep(st, i, is_backface) ==
  LET face == st.faces[i] IN
  IF is_backface /\ ~face.hide
  THEN [faces |-> [st.faces EXCEPT ![i] = Face(face.normal, TRUE, "tool")],
        new_hidden |-> st.new_hidden \cup {i - 1},
        changed |-> TRUE]
  ELSE IF ~is_backface /\ face.hide
  THEN [faces |-> [st.faces EXCEPT ![i] = Face(face.normal, FALSE, "none")],
        new_hidden |-> st.new_hidden,
        changed |-> TRUE]
  ELSE st

\* The body of the loop over bm.faces, for the face of index i - 1.
FaceStep(st, i, is_backface) ==
  LET face == st.faces[i] IN
  IF is_backface /\ ~face.hide
  THEN [faces |-> [st.faces EXCEPT ![i] = Face(face.normal, TRUE, "tool")],
        new_hidden |-> st.new_hidden \cup {i - 1},
        changed |-> TRUE]
  ELSE IF ~is_backface /\ face.hide
  THEN [faces |-> [st.faces EXCEPT ![i] = Face(face.normal, FALSE, "none")],
        new_hidden |-> st.new_hidden,
        changed |-> TRUE]
  ELSE IF is_backface
  THEN [st EXCEPT !.new_hidden = st.new_hidden \cup {i - 1}]
  ELSE st

RECURSIVE Sweep(_, _, _, _)
Sweep(st, normal_matrix, view_dir, i) ==
  IF i > Len(st.faces) THEN st
  ELSE Sweep(FaceStep(st, i, IsBackface(MatVec(normal_matrix, st.faces[i].normal),
                                        view_dir)),
             normal_matrix, view_dir, i + 1)

\* Faulty variant: the commit and the cache write made whether or not a face changed.
CommitAlways(w, obj, st) ==
  [w EXCEPT !.faces[obj] = st.faces,
            !.commits[obj] = @ + 1,
            !.cache = CachePut(w.cache, obj, st.new_hidden)]

\* Faulty variant: the new set is merged into the cache entry.
CommitMerge(w, obj, st) ==
  IF st.changed
  THEN [w EXCEPT !.faces[obj] = st.faces,
                 !.commits[obj] = @ + 1,
                 !.cache = CachePut(w.cache, obj,
                                    CacheGet(w.cache, obj) \cup st.new_hidden)]
  ELSE w

\* After the loop: commit and replace the cache entry only if a face changed.
Commit(w, obj, st) ==
  IF st.changed
  THEN [w EXCEPT !.faces[obj] = st.faces,
                 !.commits[obj] = @ + 1,
                 !.cache = CachePut(w.cache, obj, st.new_hidden)]
  ELSE w

\* The world update_backfaces and cancel act on: the faces of every mesh, the
\* cache, the number of bmesh.update_edit_mesh calls per object, and whether
\* an exception was raised.
World(f, c) ==
  [faces |-> f, cache |-> c, commits |-> [o \in MeshObjs |-> 0], exc |-> FALSE]

update_backfaces(w, obj, mode, ed, areas, mw) ==
  IF mode # "EDIT_MESH" \/ obj = None THEN w
  ELSE IF obj \notin ed THEN [w EXCEPT !.exc = TRUE]   \* from_edit_mesh raises
  ELSE LET view_dir == get_view_direction(areas) IN
       IF view_dir = None THEN w
       ELSE Commit(w, obj,
                   Sweep([faces |-> w.faces[obj], new_hidden |-> {}, changed |-> FALSE],
                         mw[obj], view_dir, 1))

----------------------------------------------------------------------------
\* VIEW3D_OT_auto_hide_backface_modal

\* for idx in indices: if idx < len(bm.faces): bm.faces[idx].hide = False
Unhide(fs, indices) ==
  [i \in 1..Len(fs) |->
     IF (i - 1) \in indices THEN Face(fs[i].normal, FALSE, "none") ELSE fs[i]]

\* The loop of cancel() over _hidden_faces_cache.items(), from entry k on.
RECURSIVE RestoreFrom(_, _, _, _)
RestoreFrom(w, k, scene, ed) ==
  IF w.exc \/ k > Len(w.cache) THEN w
  ELSE LET obj_name == w.cache[k].name
           indices == w.cache[k].indices
       IN IF obj_name \in scene /\ ObjType(obj_name) = "MESH"
          THEN IF obj_name \notin ed
               THEN [w EXCEPT !.exc = TRUE]            \* from_edit_mesh raises
               ELSE RestoreFrom([w EXCEPT !.faces[obj_name] = Unhide(@, indices),
                                          !.commits[obj_name] = @ + 1],
                                k + 1, scene, ed)
          ELSE RestoreFrom(w, k + 1, scene, ed)

\* cancel(): the sweep, then _hidden_faces_cache.clear() unless the sweep raised.
cancel(w, scene, ed) ==
  LET r == RestoreFrom(w, 1, scene, ed) IN
  IF r.exc THEN r ELSE [r EXCEPT !.cache = <<>>]

\* The TIMER branch of modal(): update_backfaces on every editable object of
\* type MESH, in scene order, until one raises.
RECURSIVE UpdateAll(_, _, _, _, _, _)
UpdateAll(w, i, scene, ed, areas, mw) ==
  IF w.exc \/ i > Len(SceneOrder) THEN w
  ELSE LET obj == SceneOrder[i] IN
       IF obj \in scene /\ ObjType(obj) = "MESH"
       THEN UpdateAll(update_backfaces(w, obj, Mode(ed), ed, areas, mw),
                      i + 1, scene, ed, areas, mw)
       ELSE UpdateAll(w, i + 1, scene, ed, areas, mw)

Last(op, result, commits) ==
  [op |-> op, obj |-> None, again |-> FALSE, result |-> result, commits |-> commits]
NoCommits == [o \in MeshObjs |-> 0]
UserStep == Last("user", None, NoCommits)

\* modal(), not enabled: cancel() and {'CANCELLED'}.
ModalDisabled ==
  /\ modals > 0
  /\ ~enabled
  /\ LET w == cancel(World(faces, cache), objs, editObjs) IN
       /\ faces' = w.faces
       /\ cache' = w.cache
       /\ last' = Last("modal_cancel", IF w.exc THEN "EXCEPTION" ELSE "CANCELLED",
                       w.commits)
  /\ timers' = timers - 1
  /\ modals' = modals - 1
  /\ UNCHANGED <<objs, matrix_world, editObjs, screen, enabled>>

\* modal(), enabled but not in edit mode: the flag is reset, {'CANCELLED'}.
ModalLeftEdit ==
  /\ modals > 0
  /\ enabled
  /\ Mode(editObjs) # "EDIT_MESH"
  /\ enabled' = FALSE
  /\ modals' = modals - 1
  /\ last' = Last("modal_left", "CANCELLED", NoCommits)
  /\ UNCHANGED <<objs, matrix_world, faces, editObjs, screen, cache, timers>>

\* modal(), enabled and in edit mode, a TIMER event.
ModalTimer ==
  /\ modals > 0
  /\ timers > 0
  /\ enabled
  /\ Mode(editObjs) = "EDIT_MESH"
  /\ LET w == UpdateAll(World(faces, cache), 1, objs, editObjs, screen, matrix_world) IN
       /\ faces' = w.faces
       /\ cache' = w.cache
       /\ modals' = IF w.exc THEN modals - 1 ELSE modals
       /\ last' = Last("modal_timer", IF w.exc THEN "EXCEPTION" ELSE "PASS_THROUGH",
                       w.commits)
  /\ UNCHANGED <<objs, matrix_world, editObjs, screen, enabled, timers>>

\* modal(), enabled and in edit mode, any other event.
ModalOther ==
  /\ modals > 0
  /\ enabled
  /\ Mode(editObjs) = "EDIT_MESH"
  /\ last' = Last("modal_other", "PASS_THROUGH", NoCommits)
  /\ UNCHANGED <<objs, matrix_world, faces, editObjs, screen, enabled, cache,
                 modals, timers>>

----------------------------------------------------------------------------
\* toggle_modal: the update callback of auto_hide_backfaces_enabled.

\* Faulty variant: toggle_modal without the edit-mode test.
toggle_modal_nogate(mode) == [enabled |-> TRUE, invoke |-> TRUE]

\* toggle_modal with the flag set: outside edit mode the flag is reset and
\* nothing starts; in edit mode the operator is invoked.
toggle_modal(mode) ==
  IF mode # "EDIT_MESH"
  THEN [enabled |-> FALSE, invoke |-> FALSE]
  ELSE [enabled |-> TRUE, invoke |-> TRUE]

\* The user sets the flag. An invoked operator runs execute(): a timer and a
\* modal handler are added, {'RUNNING_MODAL'}.
ToggleOn ==
  /\ ~enabled
  /\ toggle_modal(Mode(editObjs)).invoke => timers < MaxTimers
  /\ LET t == toggle_modal(Mode(editObjs)) IN
       /\ enabled' = t.enabled
       /\ timers' = IF t.invoke THEN timers + 1 ELSE timers
       /\ modals' = IF t.invoke THEN modals + 1 ELSE modals
       /\ last' = Last("toggle_on", IF t.invoke THEN "RUNNING_MODAL" ELSE "REJECTED",
                       NoCommits)
  /\ UNCHANGED <<objs, matrix_world, faces, editObjs, screen, cache>>

\* The flag is cleared: toggle_modal does nothing.
ToggleOff ==
  /\ enabled
  /\ enabled' = FALSE
  /\ last' = Last("toggle_off", None, NoCommits)
  /\ UNCHANGED <<objs, matrix_world, faces, editObjs, screen, cache, modals, timers>>

----------------------------------------------------------------------------
\* The user and the host.

\* Mesh A has up to MaxFaces faces, mesh B one.
FaceBound(o) == IF o = "A" THEN MaxFaces ELSE 1

\* A mesh of the scene enters edit mode.
EnterEdit(o) ==
  /\ o \in objs /\ o \notin editObjs
  /\ editObjs' = editObjs \cup {o}
  /\ last' = UserStep
  /\ UNCHANGED <<objs, matrix_world, faces, screen, enabled, cache, modals, timers>>

\* Edit mode is left (every edited mesh leaves it).
LeaveEdit ==
  /\ editObjs # {}
  /\ editObjs' = {}
  /\ last' = UserStep
  /\ UNCHANGED <<objs, matrix_world, faces, screen, enabled, cache, modals, timers>>

\* The view is rotated, or the screen layout changed.
ChangeView(s) ==
  /\ s # screen
  /\ screen' = s
  /\ last' = UserStep
  /\ UNCHANGED <<objs, matrix_world, faces, editObjs, enabled, cache, modals, timers>>

\* The user hides or reveals a face of an edited mesh.
UserSetHide(o, i, h) ==
  /\ o \in editObjs
  /\ i \in 1..Len(faces[o])
  /\ faces[o][i].hide # h
  /\ faces' = [faces EXCEPT ![o][i] =
                 Face(@.normal, h, IF h THEN "user" ELSE "none")]
  /\ last' = UserStep
  /\ UNCHANGED <<objs, matrix_world, editObjs, screen, enabled, cache, modals, timers>>

\* The user deletes the last face of an edited mesh.
DeleteFace(o) ==
  /\ o \in editObjs
  /\ Len(faces[o]) > 0
  /\ faces' = [faces EXCEPT ![o] = SubSeq(@, 1, Len(@) - 1)]
  /\ last' = UserStep
  /\ UNCHANGED <<objs, matrix_world, editObjs, screen, enabled, cache, modals, timers>>

\* The user adds a face to an edited mesh.
AddFace(o) ==
  /\ o \in editObjs
  /\ Len(faces[o]) < FaceBound(o)
  /\ faces' = [faces EXCEPT ![o] = Append(@, Face(NormalAt(Len(@) + 1), FALSE, "none"))]
  /\ last' = UserStep
  /\ UNCHANGED <<objs, matrix_world, editObjs, screen, enabled, cache, modals, timers>>

\* The user deletes an object that is not being edited (in Spec every mesh
\* but A, which stays in the scene).
DeleteObject(o) ==
  /\ o \in objs /\ o \notin editObjs
  /\ objs' = objs \ {o}
  /\ last' = UserStep
  /\ UNCHANGED <<matrix_world, faces, editObjs, screen, enabled, cache, modals, timers>>

----------------------------------------------------------------------------
\* The add-on in a scene of two meshes and a light.

InitFaces(o) == [i \in 1..FaceBound(o) |-> Face(NormalAt(i), FALSE, "none")]

Init ==
  /\ objs = AllObjs
  /\ matrix_world = [o \in MeshObjs |-> IF o = "A" THEN MatId ELSE RotY90]
  /\ faces = [o \in MeshObjs |-> InitFaces(o)]
  /\ editObjs = {}
  /\ screen = ScreenFront
  /\ enabled = FALSE
  /\ cache = <<>>
  /\ modals = 0
  /\ timers = 0
  /\ last = Last("init", None, NoCommits)

Next ==
  \/ ModalDisabled
  \/ ModalLeftEdit
  \/ ModalTimer
  \/ ModalOther
  \/ ToggleOn
  \/ ToggleOff
  \/ \E o \in MeshObjs : EnterEdit(o)
  \/ LeaveEdit
  \/ \E s \in SceneScreens : ChangeView(s)
  \/ \E o \in MeshObjs, i \in 1..MaxFaces, h \in BOOLEAN : UserSetHide(o, i, h)
  \/ \E o \in MeshObjs : DeleteFace(o)
  \/ \E o \in MeshObjs : AddFace(o)
  \/ \E o \in MeshObjs \ {"A"} : DeleteObject(o)

Spec == Init /\ [][Next]_vars

----------------------------------------------------------------------------
\* update_backfaces called on its own: on mesh A with any hide flags, face
\* count, world matrix and view, on mesh B, and with obj None.

\* The faces of a mesh of n faces whose hidden faces are those of index in h.
FacesWith(n, h) ==
  [i \in 1..n |-> IF (i - 1) \in h THEN Face(NormalAt(i), TRUE, "user")
                                   ELSE Face(NormalAt(i), FALSE, "none")]

CallUpdate(obj) ==
  /\ LET w == update_backfaces(World(faces, cache), obj, Mode(editObjs), editObjs,
                               screen, matrix_world) IN
       /\ faces' = w.faces
       /\ cache' = w.cache
       /\ last' = [op |-> "update", obj |-> obj,
                   again |-> (last.op = "update" /\ last.obj = obj
                                /\ last.result = "RETURN"),
                   result |-> IF w.exc THEN "EXCEPTION" ELSE "RETURN",
                   commits |-> w.commits]
  /\ UNCHANGED <<objs, matrix_world, editObjs, screen, enabled, modals, timers>>

InitU ==
  /\ objs = AllObjs
  /\ \E m \in {MatId, RotY90, MirrorZ} :
       matrix_world = [o \in MeshObjs |-> IF o = "A" THEN m ELSE RotY90]
  /\ \E n \in 0..MaxFacesU : \E h \in SUBSET (0..(n - 1)) :
       faces = [o \in MeshObjs |-> IF o = "A" THEN FacesWith(n, h) ELSE InitFaces(o)]
  /\ editObjs \in {{}, {"A"}, {"A", "B"}}
  /\ screen \in Screens
  /\ enabled = FALSE
  /\ cache \in {<<>>, <<[name |-> "B", indices |-> {0}]>>}
  /\ modals = 0
  /\ timers = 0
  /\ last = Last("init", None, NoCommits)

NextU ==
  \/ \E obj \in MeshObjs \cup {None} : CallUpdate(obj)
  \/ \E s \in Screens : ChangeView(s)
  \/ \E i \in 1..MaxFacesU, h \in BOOLEAN : UserSetHide("A", i, h)

SpecU == InitU /\ [][NextU]_vars

----------------------------------------------------------------------------
\* Updates followed by disable, the user hiding faces only before the tool is
\* switched on.

UserHideBefore(o, i) ==
  /\ ~enabled
  /\ modals = 0
  /\ UserSetHide(o, i, TRUE)

NextD ==
  \/ \E o \in MeshObjs : EnterEdit(o)
  \/ \E o \in MeshObjs, i \in 1..MaxFaces : UserHideBefore(o, i)
  \/ \E s \in SceneScreens : ChangeView(s)
  \/ ToggleOn
  \/ ModalTimer
  \/ ModalOther
  \/ ToggleOff
  \/ ModalDisabled

SpecD == Init /\ [][NextD]_vars

----------------------------------------------------------------------------
\* Properties.

ModalOps == {"modal_cancel", "modal_left", "modal_timer", "modal_other"}

\* The view direction of the current screen.
ViewDir == get_view_direction(screen)

\* Some face of f recorded in cache c (an index in range, of a mesh in
\* scene) is hidden.
CachedHidden(f, c, scene) ==
  \E k \in 1..Len(c) :
    /\ c[k].name \in scene \cap MeshObjs
    /\ \E idx \in c[k].indices :
         idx < Len(f[c[k].name]) /\ f[c[k].name][idx + 1].hide

\* C1: after one call of update_backfaces(obj) made in edit mode with an
\* available view direction, every face of obj is hidden exactly if the dot
\* product of its world normal and the view direction is > 0, whatever its
\* flag was before.
C1_HiddenIffDotPositive ==
  \A o \in MeshObjs :
    (last.op = "update" /\ last.obj = o /\ o \in editObjs /\ ViewDir # None)
      => \A i \in 1..Len(faces[o]) :
           faces[o][i].hide
             = (Dot(MatVec(matrix_world[o], faces[o][i].normal), ViewDir) > 0)

\* C1 witness: the four-face scenario, viewed along -Z: visible, hidden,
\* visible, visible, after an update that changed a flag.
C1_Witness ==
  /\ last.op = "update" /\ last.obj = "A" /\ last.commits["A"] = 1
  /\ "A" \in editObjs /\ matrix_world["A"] = MatId
  /\ ViewDir = <<0, 0, -1>>
  /\ [i \in 1..Len(faces["A"]) |-> faces["A"][i].normal] = NormalTable
  /\ [i \in 1..Len(faces["A"]) |-> faces["A"][i].hide] = <<FALSE, TRUE, FALSE, FALSE>>

\* C2 (as claimed): whenever modal() returns CANCELLED, the cache is empty
\* afterwards and no face the cache recorded is still hidden.
C2_CancelledRestoresAll ==
  [][(last'.op \in ModalOps /\ last'.result = "CANCELLED")
       => (cache' = <<>> /\ ~CachedHidden(faces', cache, MeshObjs))]_vars

\* C3 (as claimed): an event handled by modal() while the flag is cleared
\* runs cancel and returns CANCELLED; afterwards the timer is removed, the
\* cache is empty and every in-range cached face of a cached mesh still in
\* the scene is shown.
C3_ToggleOffThenEventRestores ==
  [][(last'.op \in ModalOps /\ ~enabled)
       => /\ last'.op = "modal_cancel"
          /\ last'.result = "CANCELLED"
          /\ timers' = timers - 1
          /\ cache' = <<>>
          /\ ~CachedHidden(faces', cache, objs)]_vars

\* C4 (as claimed): disable unhides every face of the pre-disable cache and
\* leaves a face the user hid before activation, whose flag no update
\* changed, hidden as it was.
C4_DisableRestoresExactly ==
  [][(last'.op = "modal_cancel" /\ last'.result = "CANCELLED")
       => /\ ~CachedHidden(faces', cache, objs)
          /\ \A o \in MeshObjs : \A i \in 1..Len(faces[o]) :
               faces[o][i].by = "user" => faces'[o][i].hide]_vars

\* C5: a second call of update_backfaces right after a first one on the
\* same object (same geometry, flags and view) changes no hide flag, makes
\* no commit and leaves the cache as it is.
C5_SecondUpdateIsNoOp ==
  [][(last'.op = "update" /\ last'.again)
       => (faces' = faces /\ cache' = cache /\ last'.commits = NoCommits)]_vars

\* C5 witness: a second call on mesh A in edit mode, with a view, a hidden
\* face and a cache entry of A.
C5_Witness ==
  /\ last.op = "update" /\ last.obj = "A" /\ last.again
  /\ "A" \in editObjs /\ ViewDir # None
  /\ \E i \in 1..Len(faces["A"]) : faces["A"][i].hide
  /\ CacheGet(cache, "A") # {}

\* C6 (as claimed): the step that clears the flag also unhides the cached
\* faces, clears the cache and releases the timer; in no reachable state is
\* the enable flag false while a face recorded in the cache is still hidden.
C6_FlagOffMeansRestored ==
  ~enabled
    => /\ ~CachedHidden(faces, cache, MeshObjs)
       /\ last.op = "toggle_off" => (cache = <<>> /\ timers = 0)

\* C7: setting the flag outside mesh edit mode leaves the flag false, starts
\* no operator and registers no timer; an operator or timer is added only by
\* setting the flag in edit mode.
C7_EligibilityGate ==
  [][/\ (last'.op = "toggle_on" /\ Mode(editObjs) # "EDIT_MESH")
          => (~enabled' /\ modals' = modals /\ timers' = timers
                /\ last'.result = "REJECTED")
     /\ (modals' > modals \/ timers' > timers)
          => (last'.op = "toggle_on" /\ Mode(editObjs) = "EDIT_MESH" /\ enabled'
                /\ modals' = modals + 1 /\ timers' = timers + 1)]_vars

\* C7 witness: a rejected activation outside edit mode.
C7_Witness ==
  /\ last.op = "toggle_on" /\ last.result = "REJECTED"
  /\ Mode(editObjs) # "EDIT_MESH"
  /\ ~enabled /\ modals = 0 /\ timers = 0

\* C8 (as claimed): whenever cancel runs, no cached mesh of the scene is
\* outside edit mode, the sweep completes and the cache is cleared.
C8_CancelNeverFaults ==
  [][last'.op = "modal_cancel"
       => /\ \A n \in CacheKeys(cache) \cap objs \cap MeshObjs : n \in editObjs
          /\ last'.result = "CANCELLED"
          /\ cache' = <<>>]_vars

\* Entry k of cache c is reached by the sweep of cancel and restored, and
\* holds an index that is no face of its mesh.
RestoredStale(c, k, f, scene, ed) ==
  /\ c[k].name \in scene \cap MeshObjs \cap ed
  /\ \A j \in 1..(k - 1) : c[j].name \in scene \cap MeshObjs => c[j].name \in ed
  /\ \E idx \in c[k].indices : idx >= Len(f[c[k].name])

\* C9 (as claimed): when cancel restores an object whose cache entry holds a
\* stale index, the index is skipped, every cached index in range is
\* unhidden, and the restore of that and of all remaining cached objects
\* completes.
C9_StaleIndexSkipped ==
  [][(last'.op = "modal_cancel"
        /\ \E k \in 1..Len(cache) : RestoredStale(cache, k, faces, objs, editObjs))
       => /\ last'.result = "CANCELLED"
          /\ cache' = <<>>
          /\ \A o \in MeshObjs : Len(faces'[o]) = Len(faces[o])
          /\ ~CachedHidden(faces', cache, objs)]_vars

\* C10 (as claimed): cancel releases the timer only after the unhide sweep
\* and the clearing of the cache: whenever cancel has removed the timer, the
\* cache is empty and no cached face is hidden.
C10_SweepBeforeTimerRelease ==
  [][(last'.op = "modal_cancel" /\ timers' < timers)
       => (cache' = <<>> /\ ~CachedHidden(faces', cache, objs))]_vars

\* Some 3D view area of the screen has a window region with view data.
HasView(areas) ==
  \E i \in 1..Len(areas) :
    /\ areas[i].type = "VIEW_3D"
    /\ \E j \in 1..Len(areas[i].regions) :
         areas[i].regions[j].type = "WINDOW" /\ areas[i].regions[j].data # None

\* C11: with no 3D view that has a window region with view data,
\* get_view_direction gives None and a call of update_backfaces changes no
\* hide flag, commits nothing and leaves the cache as it is; so does a call
\* outside mesh edit mode or with obj None. The call returns (no exception)
\* when made outside edit mode, with obj None, or on a mesh in edit mode.
C11_NoViewNoChange ==
  [][/\ ~HasView(screen) => get_view_direction(screen) = None
     /\ (last'.op = "update"
           /\ (~HasView(screen) \/ Mode(editObjs) # "EDIT_MESH" \/ last'.obj = None))
          => /\ faces' = faces
             /\ cache' = cache
             /\ last'.commits = NoCommits
             /\ (Mode(editObjs) # "EDIT_MESH" \/ last'.obj \in editObjs \cup {None})
                  => last'.result = "RETURN"]_vars

\* C11 witness: a call on mesh A in edit mode with no view, A holding a
\* hidden face that faces the viewer of no screen: it stays hidden.
C11_Witness ==
  /\ last.op = "update" /\ last.obj = "A" /\ last.result = "RETURN"
  /\ "A" \in editObjs
  /\ ~HasView(screen)
  /\ \E i \in 1..Len(faces["A"]) : faces["A"][i].hide
  /\ \E i \in 1..Len(faces["A"]) : ~faces["A"][i].hide

----------------------------------------------------------------------------
\* Only the tool acts on mesh A: calls of update_backfaces under changing
\* views, from no hidden face and no cache entry of A.

InitT ==
  /\ objs = AllObjs
  /\ \E m \in {MatId, RotY90, MirrorZ} :
       matrix_world = [o \in MeshObjs |-> IF o = "A" THEN m ELSE RotY90]
  /\ \E n \in 0..MaxFacesU :
       faces = [o \in MeshObjs |-> IF o = "A" THEN FacesWith(n, {}) ELSE InitFaces(o)]
  /\ editObjs \in {{}, {"A"}, {"A", "B"}}
  /\ screen \in Screens \cup {ScreenDiag}
  /\ enabled = FALSE
  /\ cache \in {<<>>, <<[name |-> "B", indices |-> {0}]>>}
  /\ modals = 0
  /\ timers = 0
  /\ last = Last("init", None, NoCommits)

NextT ==
  \/ \E obj \in MeshObjs \cup {None} : CallUpdate(obj)
  \/ \E s \in Screens \cup {ScreenDiag} : ChangeView(s)

SpecT == InitT /\ [][NextT]_vars

\* The indices of the hidden faces of fs.
HiddenSet(fs) == {i - 1 : i \in {j \in 1..Len(fs) : fs[j].hide}}

\* The indices of the faces of object o that face away from view direction v.
BackSet(o, v) ==
  {i - 1 : i \in {j \in 1..Len(faces[o]) :
                    Dot(MatVec(matrix_world[o], faces[o][j].normal), v) > 0}}

\* C12 (as claimed): after an update that wrote the cache entry of an
\* object, the entry holds exactly the indices of the faces the tool itself
\* set to hidden, and none of a face another actor had hidden.
C12_CacheIsToolHidden ==
  \A o \in MeshObjs :
    (last.op = "update" /\ last.obj = o /\ last.commits[o] = 1)
      => CacheGet(cache, o)
           = {i - 1 : i \in {j \in 1..Len(faces[o]) :
                               faces[o][j].hide /\ faces[o][j].by = "tool"}}

\* C13: a call of update_backfaces on an edited mesh with a view: if a face
\* changed its flag, one commit is made and the cache entry of the object
\* becomes the set of all backfacing faces (also those hidden before the
\* call), the other entries staying as they are; if none changed, there is no
\* commit and the cache is unchanged.
C13_CacheReplaced ==
  [][\A o \in MeshObjs :
       (last'.op = "update" /\ last'.obj = o /\ o \in editObjs /\ HasView(screen))
         => IF \E i \in 1..Len(faces[o]) : faces'[o][i].hide # faces[o][i].hide
            THEN /\ last'.commits = [NoCommits EXCEPT ![o] = 1]
                 /\ o \in CacheKeys(cache')
                 /\ CacheGet(cache', o) = BackSet(o, ViewDir)
                 /\ \A p \in MeshObjs \ {o} :
                      /\ p \in CacheKeys(cache') <=> p \in CacheKeys(cache)
                      /\ CacheGet(cache', p) = CacheGet(cache, p)
            ELSE /\ last'.commits = NoCommits
                 /\ cache' = cache]_vars

\* C13 witness: an update of A that committed and whose new cache entry
\* holds a face the user had hidden before the call.
C13_Witness ==
  /\ last.op = "update" /\ last.obj = "A" /\ last.commits["A"] = 1
  /\ \E i \in 1..Len(faces["A"]) :
       /\ faces["A"][i].hide /\ faces["A"][i].by = "user"
       /\ (i - 1) \in CacheGet(cache, "A")

\* C14 (as claimed): a TIMER event handled while enabled and in edit mode
\* ends with PASS_THROUGH after update_backfaces was applied to every mesh of
\* the scene (each edited mesh then shows the dot rule when a view exists);
\* any other event changes no face and no cache entry and ends with
\* PASS_THROUGH.
C14_TickProcessesAll ==
  [][/\ last'.op = "modal_timer"
          => /\ last'.result = "PASS_THROUGH"
             /\ HasView(screen)
                  => \A o \in objs \cap editObjs :
                       HiddenSet(faces'[o]) = BackSet(o, ViewDir)
     /\ last'.op = "modal_other"
          => (last'.result = "PASS_THROUGH" /\ faces' = faces /\ cache' = cache
                /\ modals' = modals)]_vars

\* C15: with only the tool acting on mesh A, from no hidden face and no cache
\* entry, after every update call the cache entry of A (empty when absent)
\* is the set of indices of the faces of A that are hidden.
C15_CacheIsHiddenSet ==
  last.op = "update" => CacheGet(cache, "A") = HiddenSet(faces["A"])

\* C15 witness: after a second committed update under another view, a face
\* hidden before it is still hidden and recorded, next to a newly hidden one.
C15_Witness ==
  /\ last.op = "update" /\ last.obj = "A" /\ last.commits["A"] = 1
  /\ screen = ScreenDiag
  /\ Cardinality(CacheGet(cache, "A")) >= 2
  /\ CacheGet(cache, "A") = HiddenSet(faces["A"])

\* C16 (as claimed): at most one timer and one modal operator of the tool are
\* registered at any time, and once a modal handler has ended on an event
\* with the flag false, none running any more, no timer of the tool remains.
C16_SingleInstance ==
  /\ timers <= 1
  /\ modals <= 1
  /\ (~enabled /\ modals = 0 /\ last.op \in {"modal_cancel", "modal_left"}
         /\ last.result = "CANCELLED")
       => timers = 0
====
